---- MODULE Spec2Model ----
(***************************************************************************)
(* A model of the classes of cppExamples: the LRU cache of lru_cache.cpp,  *)
(* and further down CyclicQueue (cyclic_queue.cpp), SharedPtr              *)
(* (my_shared_ptr.cpp), MedianFinder (median_stream.cpp) and the Logger    *)
(* singleton (singleton.cpp).  Each class has its own specification, at    *)
(* the end of the module.                                                  *)
(*                                                                         *)
(* The cache is a std::list<Node> (priorityQ, least recently used node at  *)
(* the front) and a std::unordered_map from key to list iterator           *)
(* (keyToNode).  A list node is modelled with the identity (address) the   *)
(* iterators refer to; an iterator is that identity.                       *)
(***************************************************************************)
EXTENDS Integers, Sequences, FiniteSets, TLC

\* ------------------------------------------------------------- bounds
MaxKey == 3
MaxVal == 1
MaxCap == 2

\* The value get returns for a key it does not find (lru_cache.cpp:30).
MISS == -1

Keys == 1..MaxKey
\* put takes any int, the value -1 included.
Values == {MISS} \cup (1..MaxVal)
\* The constructor takes any int (lru_cache.cpp:21).
Capacities == (0 - 1)..MaxCap
\* Addresses of list nodes: a list holds at most one node per key, and one
\* address is spare.
NodeIds == 1..(MaxKey + 1)

VARIABLES
    capacity,   \* const int capacity
    priorityQ,  \* list<Node>: sequence of [id, key, val], front first
    keyToNode,  \* unordered_map<int, iterator>: function key -> node id
    crashed,    \* the process ended in undefined behaviour
    lastOp,     \* history: the last call, its result and what it removed
    touched,    \* history: keys in the order of their most recent touch
    lastPut,    \* history: <<v>> for the most recent put(k, v), <<>> if none
    pristine,   \* history: every call so far was a put of a never-put key
    firstPuts,  \* history: while pristine, the keys put so far, in order
    tracked,    \* history: keys since whose last touch only new keys were put
    peers       \* history: keys cached at k's last touch, see TouchPeers

vars == <<capacity, priorityQ, keyToNode, crashed, lastOp, touched, lastPut,
          pristine, firstPuts, tracked, peers>>

\* The CyclicQueue of cppExamples/cyclic_queue.cpp.
VARIABLES
    cqCapacity,   \* const size_t capacity
    numElements,  \* size_t numElements
    elements,     \* std::list<T> elements, front first
    cqUndefined,  \* front() or pop_front() ran on an empty list
    cqLast,       \* history: the last call, whether it threw, what it returned
    cqEnqueued,   \* history: every element enqueued, in order
    cqDequeued    \* history: the number of elements dequeued

cqVars == <<cqCapacity, numElements, elements, cqUndefined, cqLast,
            cqEnqueued, cqDequeued>>

\* The SharedPtr owners of cppExamples/my_shared_ptr.cpp and their heap.
VARIABLES
    spOwner,    \* per variable: in its lifetime or not, rawPointer, counter
    spCell,     \* the size_t cells made by new size_t(1): the count, or Freed
    spObject,   \* the objects given to the raw-pointer constructor
    spFault,    \* the first dereference of a null or freed counter, if any
    spCrashed,  \* the process ended in undefined behaviour
    spLast,     \* history: the last call
    spMoved,    \* history: the owners moved from and not assigned to since
    spOutside   \* history: a copy, move or assignment had an empty operand

spVars == <<spOwner, spCell, spObject, spFault, spCrashed, spLast, spMoved,
            spOutside>>

\* The MedianFinder of cppExamples/median_stream.cpp.
VARIABLES
    heapMax,    \* priority_queue<int>: the smaller half, largest first
    heapMin,    \* priority_queue<int, .., greater<int>>: smallest first
    mfCrashed,  \* the process ended in undefined behaviour
    mfMedian,   \* what the last call returned, NoMedian for addNum
    mfStream    \* history: the numbers added, in order

mfVars == <<heapMax, heapMin, mfCrashed, mfMedian, mfStream>>

\* The Logger singleton of cppExamples/singleton.cpp and its threads.
VARIABLES
    sgGuard,     \* the initialisation of the static: not begun, running, done
    sgCtorRuns,  \* how many times the body of Logger() has run
    sgInstance,  \* the object in the static's storage: which run of the
                 \* constructor built it, NoInstance before
    sgPc,        \* per thread: where it is in thread_task
    sgGot,       \* per thread: what getInstance returned to it
    sgWaited     \* history: the threads that waited for the initialisation

sgVars == <<sgGuard, sgCtorRuns, sgInstance, sgPc, sgGot, sgWaited>>

\* The objects of the other classes, which the calls on one class leave alone.
lruRest == <<cqVars, spVars, mfVars, sgVars>>
cqRest == <<vars, spVars, mfVars, sgVars>>
spRest == <<vars, cqVars, mfVars, sgVars>>
mfRest == <<vars, cqVars, spVars, sgVars>>
sgRest == <<vars, cqVars, spVars, mfVars>>

allVars == <<vars, cqVars, spVars, mfVars, sgVars>>

\* ------------------------------------------------ std::list operations
Node(id, key, val) == [id |-> id, key |-> key, val |-> val]

LiveIds(q) == {q[i].id : i \in 1..Len(q)}

\* An iterator is valid while its node is in the list.
Valid(q, it) == it \in LiveIds(q)

\* *it for a valid iterator it.
Deref(q, it) == q[CHOOSE i \in 1..Len(q) : q[i].id = it]

\* list::erase(it): unlinks the node; the other nodes keep their identity.
ListErase(q, it) == SelectSeq(q, LAMBDA n : n.id # it)

\* The addresses operator new may give the next node: any address that no
\* node of the list has, the address of a node erased before included.  Two
\* free addresses that no iterator in the map m holds are alike, so the
\* lowest stands for them all.
NewNode(q, m) ==
    LET free == NodeIds \ LiveIds(q)
        stale == {id \in free : \E k \in DOMAIN m : m[k] = id}
        fresh == free \ stale
    IN  stale \cup {id \in fresh : \A j \in fresh : id <= j}

\* list::push_back followed by prev(end()): the new node is the tail.
ListPushBack(q, n) == Append(q, n)

\* list::pop_front.
ListPopFront(q) == Tail(q)

\* Node addresses are only ever compared for equality, so two states that
\* differ by a renaming of the addresses are one state of the program.  The
\* state after a call is stored with every node renamed to its position in
\* the list, and an iterator to a node that is no longer in the list renamed
\* to Dangling.
Dangling == 0

PositionOf(q, it) ==
    IF it \in LiveIds(q) THEN CHOOSE i \in 1..Len(q) : q[i].id = it
    ELSE Dangling

CanonList(q) == [i \in 1..Len(q) |-> Node(i, q[i].key, q[i].val)]

CanonMap(q, m) == [k \in DOMAIN m |-> PositionOf(q, m[k])]

\* ---------------------------------------- std::unordered_map operations
MapFind(m, key) == key \in DOMAIN m

MapSize(m) == Cardinality(DOMAIN m)

MapErase(m, key) == [k \in (DOMAIN m) \ {key} |-> m[k]]

\* unordered_map::insert keeps the old mapping when the key is present.
MapInsert(m, key, it) ==
    IF key \in DOMAIN m THEN m
    ELSE [k \in (DOMAIN m) \cup {key} |-> IF k = key THEN it ELSE m[k]]

\* capacity == keyToNode.size(): the int is converted to size_t, so a
\* negative capacity becomes a value above every size a map can have.
CapacityEqualsSize(cap, size) == cap >= 0 /\ cap = size

\* --------------------------------------------------------------- get
\* getAbsent with the lookup written keyToNode[key], which inserts.
getAbsent_Inserts(q, m, key) ==
    {[q |-> ListPushBack(q, Node(id, key, MISS)),
      m |-> MapInsert(m, key, id), ret |-> MISS] : id \in NewNode(q, m)}

\* Lines 28-31: the key is not in the map.
getAbsent(q, m, key) == {[q |-> q, m |-> m, ret |-> MISS]}

\* getPresent without lines 34-37: the value is returned, nothing moves.
getPresent_NoRelocate(q, m, key) ==
    {[q |-> q, m |-> m, ret |-> Deref(q, m[key]).val]}

\* getPresent without lines 36-37: the entry is erased and not put back.
getPresent_Takes(q, m, key) ==
    {[q |-> ListErase(q, m[key]), m |-> MapErase(m, key),
      ret |-> Deref(q, m[key]).val]}

\* getPresent with push_front and begin() at lines 36-37.
getPresent_ToFront(q, m, key) ==
    LET valToReturn == Deref(q, m[key]).val
        q1 == ListErase(q, m[key])
        m1 == MapErase(m, key)
    IN  {[q |-> <<Node(id, key, valToReturn)>> \o q1,
          m |-> MapInsert(m1, key, id),
          ret |-> valToReturn] : id \in NewNode(q1, m1)}

\* Lines 33-38: erase the node and the map entry, append a new node with
\* the same value, map the key to it.  The set of the results, one for each
\* address the new node may have.
getPresent(q, m, key) ==
    LET valToReturn == Deref(q, m[key]).val
        q1 == ListErase(q, m[key])
        m1 == MapErase(m, key)
    IN  {[q |-> ListPushBack(q1, Node(id, key, valToReturn)),
          m |-> MapInsert(m1, key, id),
          ret |-> valToReturn] : id \in NewNode(q1, m1)}

get(q, m, key) ==
    IF ~MapFind(m, key) THEN getAbsent(q, m, key)
    ELSE getPresent(q, m, key)

\* Line 33 through an iterator whose node was erased: undefined.
getUndefined(q, m, key) == MapFind(m, key) /\ ~Valid(q, m[key])

\* --------------------------------------------------------------- put
\* Line 44.
keyExist(m, key) == MapFind(m, key)

\* mustEvict with the test written capacity < size.
mustEvict_OffByOne(cap, m, key) ==
    CapacityEqualsSize(cap, MapSize(m) - 1) /\ ~keyExist(m, key)

\* mustEvict with the test written capacity == size + 1: one entry early.
mustEvict_OneEarly(cap, m, key) ==
    CapacityEqualsSize(cap, MapSize(m) + 1) /\ ~keyExist(m, key)

\* mustEvict without "and !keyExist".
mustEvict_IgnoresKeyExist(cap, m, key) ==
    CapacityEqualsSize(cap, MapSize(m))

\* Line 46.
mustEvict(cap, m, key) ==
    CapacityEqualsSize(cap, MapSize(m)) /\ ~keyExist(m, key)

\* evict with back() and pop_back(): the newest node goes.
evict_Newest(q, m) ==
    LET keyToEvict == q[Len(q)].key
    IN  [q |-> SubSeq(q, 1, Len(q) - 1), m |-> MapErase(m, keyToEvict)]

\* evict without line 49: the map keeps the popped node's iterator.
evict_KeepsMapEntry(q, m) == [q |-> ListPopFront(q), m |-> m]

\* Lines 48-50, on a list that is not empty.
evict(q, m) ==
    LET keyToEvict == Head(q).key
    IN  [q |-> ListPopFront(q), m |-> MapErase(m, keyToEvict)]

\* eraseExisting without line 56: the map keeps the erased node's iterator.
eraseExisting_KeepsMapEntry(q, m, key, it) ==
    [q |-> ListErase(q, it), m |-> m]

\* eraseExisting without line 55: the list keeps the old node.
eraseExisting_KeepsListNode(q, m, key, it) ==
    [q |-> q, m |-> MapErase(m, key)]

\* Lines 55-56; it is kToNode->second, found at line 43.
eraseExisting(q, m, key, it) ==
    [q |-> ListErase(q, it), m |-> MapErase(m, key)]

\* insertTail with push_front and begin().
insertTail_AtFront(q, m, key, value) ==
    {[q |-> <<Node(id, key, value)>> \o q, m |-> MapInsert(m, key, id)] :
        id \in NewNode(q, m)}

\* Lines 59-60: the set of the results, one for each address the new node
\* may have.
insertTail(q, m, key, value) ==
    {[q |-> ListPushBack(q, Node(id, key, value)),
      m |-> MapInsert(m, key, id)] : id \in NewNode(q, m)}

\* Lines 48-50 on an empty list (capacity 0): front() and pop_front() of an
\* empty list are undefined.  So are erase(end()) at line 49 and an erase
\* through an iterator whose node was erased at line 55.
putUndefined(cap, q, m, key) ==
    IF mustEvict(cap, m, key)
    THEN (IF q = <<>> THEN TRUE ELSE ~MapFind(m, Head(q).key))
    ELSE (IF keyExist(m, key) THEN ~Valid(q, m[key]) ELSE FALSE)

\* The body of put; evictRuns is FALSE only for the undefined eviction
\* whose three statements had no effect.
putBody(cap, q, m, key, value, evictRuns) ==
    LET s1 == IF mustEvict(cap, m, key) /\ evictRuns THEN evict(q, m)
              ELSE [q |-> q, m |-> m]
        s2 == IF keyExist(m, key) THEN eraseExisting(s1.q, s1.m, key, m[key])
              ELSE s1
    IN  insertTail(s2.q, s2.m, key, value)

\* ------------------------------------------------------------ history
Remove(s, key) == SelectSeq(s, LAMBDA k : k # key)

\* A touch of key (a put, or a get that found it) makes it the most recently
\* touched key.
Touch(s, key) == Append(Remove(s, key), key)

\* put(key, value) is the most recent put of key.
RecordPut(lp, key, value) == [lp EXCEPT ![key] = <<value>>]

InSeq(s, key) == \E i \in 1..Len(s) : s[i] = key

\* peers[j]: the keys that were cached beside j when j was last touched and
\* have stayed cached since.  It is followed while j is tracked: until a
\* call touches a key that is cached.
TouchPeers(p, key, wasCached, cachedAfter, removed) ==
    [j \in Keys |->
        IF j = key THEN cachedAfter \ {key}
        ELSE IF wasCached THEN {}
        ELSE p[j] \ removed]

TouchTracked(t, key, wasCached) ==
    IF wasCached THEN {key} ELSE t \cup {key}

Cached == DOMAIN keyToNode

\* ------------------------------------------------------------ actions
Init ==
    /\ capacity \in Capacities
    /\ priorityQ = <<>>
    /\ keyToNode = <<>>
    /\ crashed = FALSE
    /\ lastOp = [op |-> "new", key |-> 0, val |-> 0, ret |-> 0,
                 wasCached |-> FALSE, removed |-> {}]
    /\ touched = <<>>
    /\ lastPut = [k \in Keys |-> <<>>]
    /\ pristine = TRUE
    /\ firstPuts = <<>>
    /\ tracked = {}
    /\ peers = [k \in Keys |-> {}]

\* The record of a call that ended the process.
Crash(op, key, value) ==
    /\ crashed' = TRUE
    /\ lastOp' = [op |-> op, key |-> key, val |-> value, ret |-> 0,
                  wasCached |-> key \in Cached, removed |-> {}]
    /\ UNCHANGED <<priorityQ, keyToNode, touched, lastPut, tracked, peers>>

Get(key) ==
    /\ ~crashed
    /\ IF getUndefined(priorityQ, keyToNode, key)
       THEN Crash("get", key, 0)
       ELSE \E r \in get(priorityQ, keyToNode, key) :
            LET hit == key \in Cached
                removed == Cached \ DOMAIN r.m
            IN  /\ priorityQ' = CanonList(r.q)
                /\ keyToNode' = CanonMap(r.q, r.m)
                /\ lastOp' = [op |-> "get", key |-> key, val |-> 0,
                              ret |-> r.ret, wasCached |-> hit,
                              removed |-> removed]
                /\ touched' = IF hit THEN Touch(touched, key) ELSE touched
                /\ tracked' = IF hit THEN TouchTracked(tracked, key, TRUE)
                              ELSE tracked
                /\ peers' = IF hit
                            THEN TouchPeers(peers, key, TRUE, DOMAIN r.m, removed)
                            ELSE peers
                /\ UNCHANGED <<crashed, lastPut>>
    /\ pristine' = FALSE
    /\ firstPuts' = <<>>
    /\ UNCHANGED <<capacity, lruRest>>

\* What a put that returns leaves behind; evictRuns as in putBody.
PutReturns(key, value, evictRuns) ==
    \E r \in putBody(capacity, priorityQ, keyToNode, key, value, evictRuns) :
    LET hit == key \in Cached
        removed == Cached \ DOMAIN r.m
    IN  /\ priorityQ' = CanonList(r.q)
        /\ keyToNode' = CanonMap(r.q, r.m)
        /\ lastOp' = [op |-> "put", key |-> key, val |-> value, ret |-> 0,
                      wasCached |-> hit, removed |-> removed]
        /\ touched' = Touch(touched, key)
        /\ lastPut' = RecordPut(lastPut, key, value)
        /\ tracked' = TouchTracked(tracked, key, hit)
        /\ peers' = TouchPeers(peers, key, hit, DOMAIN r.m, removed)
        /\ UNCHANGED crashed

\* A put whose statements are all defined.
Put(key, value) ==
    /\ ~crashed
    /\ ~putUndefined(capacity, priorityQ, keyToNode, key)
    /\ PutReturns(key, value, TRUE)
    /\ pristine' = (pristine /\ ~InSeq(firstPuts, key))
    /\ firstPuts' = IF pristine' THEN Append(firstPuts, key) ELSE <<>>
    /\ UNCHANGED <<capacity, lruRest>>

\* A put that runs an undefined statement (with capacity 0: the eviction
\* from an empty list).  Either the process dies there, or the undefined
\* statements pass without effect and the rest of put follows.
PutUndefined(key, value) ==
    /\ ~crashed
    /\ putUndefined(capacity, priorityQ, keyToNode, key)
    /\ \E dies \in BOOLEAN :
        IF dies THEN Crash("put", key, value)
        ELSE PutReturns(key, value, FALSE)
    /\ pristine' = (pristine /\ ~InSeq(firstPuts, key))
    /\ firstPuts' = IF pristine' THEN Append(firstPuts, key) ELSE <<>>
    /\ UNCHANGED <<capacity, lruRest>>

Next ==
    \/ \E key \in Keys : Get(key)
    \/ \E key \in Keys, value \in Values : Put(key, value)
    \/ \E key \in Keys, value \in Values : PutUndefined(key, value)

\* ------------------------------------------------- what an observer sees
\* get(k) would find k and return v.
Holds(q, m, k, v) ==
    MapFind(m, k) /\ Valid(q, m[k]) /\ \A r \in get(q, m, k) : r.ret = v

\* <<v>> for the value cached for k, <<>> when there is none.
ValueOf(q, m, k) ==
    IF MapFind(m, k) /\ Valid(q, m[k]) THEN <<Deref(q, m[k]).val>> ELSE <<>>

\* The keys of the list, front first.
KeysOf(q) == [i \in 1..Len(q) |-> q[i].key]

\* The key of the tail node: the entry that is most recently used, the last
\* one an eviction reaches; 0 for an empty list.
MostRecentlyUsed(q) == IF q = <<>> THEN 0 ELSE q[Len(q)].key

\* The place of k's most recent touch in the order of touches; 0 if none.
TouchRank(k) ==
    IF InSeq(touched, k) THEN CHOOSE i \in 1..Len(touched) : touched[i] = k
    ELSE 0

\* The cached keys whose most recent touch is the oldest.
LeastRecentlyTouched ==
    {k \in Cached : \A j \in Cached : TouchRank(k) <= TouchRank(j)}

\* ---------------------------------------------------------------- claims

\* C1: for a cache constructed with a positive capacity, after every get
\* and put the number of cached keys is at most the capacity.
C1_CapacityInvariant ==
    capacity >= 1 =>
        MapSize(keyToNode) <= capacity /\ Len(priorityQ) <= capacity

\* A put into a full cache evicted and left the cache full.
C1_Witness ==
    /\ capacity >= 1
    /\ lastOp.op = "put"
    /\ lastOp.removed # {}
    /\ MapSize(keyToNode) = capacity

\* C2: a put of a key that is not cached, into a cache that holds exactly
\* capacity entries, evicts exactly one entry, the one whose most recent
\* touch is the oldest; every other cached key stays cached.
C2_EvictsLeastRecentlyTouched ==
    [][(/\ lastOp'.op = "put"
        /\ ~crashed'
        /\ capacity >= 1
        /\ lastOp'.key \notin Cached
        /\ MapSize(keyToNode) = capacity)
       => /\ Cardinality(LeastRecentlyTouched) = 1
          /\ Cached' = (Cached \ LeastRecentlyTouched) \cup {lastOp'.key}
          /\ lastOp'.removed = LeastRecentlyTouched]_vars

\* A put evicted from a cache of two entries after a get or a repeated put
\* had changed the order of the touches.
C2_Witness ==
    /\ lastOp.op = "put"
    /\ ~lastOp.wasCached
    /\ lastOp.removed # {}
    /\ capacity = 2
    /\ ~pristine

\* C3: for a capacity of at least 1, right after put(k, v) the key k is
\* cached, get(k) returns v and k is the most recently used entry, whether
\* k was new or present and whether or not an entry was evicted.
C3_PutThenGet ==
    (capacity >= 1 /\ lastOp.op = "put") =>
        /\ ~crashed
        /\ Holds(priorityQ, keyToNode, lastOp.key, lastOp.val)
        /\ MostRecentlyUsed(priorityQ) = lastOp.key

\* A put of a key that was cached, into a full cache of two entries.
C3_Witness ==
    /\ capacity = 2
    /\ lastOp.op = "put"
    /\ lastOp.wasCached
    /\ MapSize(keyToNode) = capacity

\* C4: a get(k) that finds k returns the value of the most recent
\* put(k, .), makes k the most recently used entry, and leaves the set of
\* cached keys, every cached value and the number of entries as they were.
C4_GetHit ==
    [][(lastOp'.op = "get" /\ lastOp'.key \in Cached)
       => /\ ~crashed'
          /\ lastPut[lastOp'.key] = <<lastOp'.ret>>
          /\ MostRecentlyUsed(priorityQ') = lastOp'.key
          /\ Cached' = Cached
          /\ Len(priorityQ') = Len(priorityQ)
          /\ \A j \in Cached : ValueOf(priorityQ', keyToNode', j)
                               = ValueOf(priorityQ, keyToNode, j)]_vars

\* A get found its key in a cache of at least two entries.
C4_Witness ==
    /\ lastOp.op = "get"
    /\ lastOp.wasCached
    /\ MapSize(keyToNode) >= 2

\* C5: a get(k) that does not find k returns the miss result and changes
\* neither the cached keys, nor their values, nor the recency order.
C5_GetMiss ==
    [][(lastOp'.op = "get" /\ lastOp'.key \notin Cached)
       => /\ ~crashed'
          /\ lastOp'.ret = MISS
          /\ priorityQ' = priorityQ
          /\ keyToNode' = keyToNode]_vars

\* A get missed a key that had been put before, in a cache that is not
\* empty.
C5_Witness ==
    /\ lastOp.op = "get"
    /\ ~lastOp.wasCached
    /\ lastOp.ret = MISS
    /\ InSeq(touched, lastOp.key)
    /\ Cached # {}

\* C6: put(k, v2) of a key k that is cached changes neither the number of
\* cached entries nor the set of cached keys, also when the cache is full;
\* the other keys keep their values and their order.
C6_UpdateInPlace ==
    [][(lastOp'.op = "put" /\ lastOp'.key \in Cached)
       => /\ ~crashed'
          /\ Cached' = Cached
          /\ lastOp'.removed = {}
          /\ Len(priorityQ') = Len(priorityQ)
          /\ \A j \in Cached \ {lastOp'.key} :
                ValueOf(priorityQ', keyToNode', j)
                = ValueOf(priorityQ, keyToNode, j)
          /\ Remove(KeysOf(priorityQ'), lastOp'.key)
             = Remove(KeysOf(priorityQ), lastOp'.key)]_vars

\* A put gave a cached key a value other than -1 in a full cache of two.
C6_Witness ==
    /\ capacity = 2
    /\ MapSize(keyToNode) = capacity
    /\ lastOp.op = "put"
    /\ lastOp.wasCached
    /\ lastOp.val # MISS

\* C7: after a put(k, v) or a get(k) that found k, and as long as the calls
\* that follow put new keys only, k stays cached for as long as any key that
\* was cached at that moment is still cached.
C7_TouchedIsEvictedLast ==
    \A j \in tracked : peers[j] # {} => j \in Cached

\* A key touched by a get is still cached after every key cached beside it
\* at that moment has been evicted.
C7_Witness ==
    \E j \in tracked :
        /\ j \in Cached
        /\ peers[j] = {}
        /\ lastOp.op = "put"
        /\ lastOp.key # j
        /\ lastOp.removed # {}
        /\ ~pristine

\* C8: from an empty cache of capacity C >= 1, C+1 puts of distinct keys
\* and no get evict exactly the first key: afterwards the first key misses
\* and the other C keys are found with the values put.
C8_FirstInsertedIsEvicted ==
    (capacity >= 1 /\ pristine /\ Len(firstPuts) = capacity + 1) =>
        /\ ~crashed
        /\ Cached = {firstPuts[i] : i \in 2..(capacity + 1)}
        /\ \A r \in get(priorityQ, keyToNode, firstPuts[1]) : r.ret = MISS
        /\ \A i \in 2..(capacity + 1) :
              \E v \in Values :
                  /\ lastPut[firstPuts[i]] = <<v>>
                  /\ Holds(priorityQ, keyToNode, firstPuts[i], v)

\* Three distinct keys were put into an empty cache of capacity 2.
C8_Witness ==
    /\ capacity = 2
    /\ pristine
    /\ Len(firstPuts) = capacity + 1

\* C9: a capacity of 0 or less is rejected when the cache is constructed,
\* so no put runs on a cache whose capacity is 0 or less.
C9_NoPutOnNonPositiveCapacity ==
    lastOp.op = "put" => capacity >= 1

\* C10: get(k) returns the miss result exactly when k is not cached.
C10_MissIffNotCached ==
    lastOp.op = "get" => (lastOp.ret = MISS <=> ~lastOp.wasCached)

\* C11: a cached key stops being cached only during a put of another key
\* that was not cached, issued while the cache holds exactly capacity
\* entries; no get and no put of a cached key removes a key.
C11_OnlyFullPutEvicts ==
    [][\A k \in Cached \ Cached' :
          /\ lastOp'.op = "put"
          /\ lastOp'.key # k
          /\ lastOp'.key \notin Cached
          /\ MapSize(keyToNode) = capacity]_vars

\* A put of a new key into a full cache of one entry removed that entry.
C11_Witness ==
    /\ capacity = 1
    /\ lastOp.op = "put"
    /\ ~lastOp.wasCached
    /\ Cardinality(lastOp.removed) = 1
    /\ Cached = {lastOp.key}

\* C17: after every get and put on a cache of positive capacity the map and
\* the list hold the same number of entries, and the list holds exactly one
\* node for each key of the map and no node for any other key.
C17_IndexMatchesList ==
    capacity >= 1 =>
        /\ MapSize(keyToNode) = Len(priorityQ)
        /\ \A k \in Cached :
              Cardinality({i \in 1..Len(priorityQ) : priorityQ[i].key = k}) = 1
        /\ \A i \in 1..Len(priorityQ) : priorityQ[i].key \in Cached

\* A get relocated a node in a full cache of two entries.
C17_Witness ==
    /\ capacity = 2
    /\ Len(priorityQ) = 2
    /\ lastOp.op = "get"
    /\ lastOp.wasCached
    /\ ~crashed

\* C18: after every get and put on a cache of positive capacity every
\* iterator in the map refers to a node that is in the list and holds the
\* key it is mapped from; none refers to an erased node.
C18_HandlesAreLive ==
    capacity >= 1 =>
        \A k \in Cached :
            /\ Valid(priorityQ, keyToNode[k])
            /\ Deref(priorityQ, keyToNode[k]).key = k

\* A put evicted a node while another key's node stayed, after a get or a
\* repeated put had relocated a node.
C18_Witness ==
    /\ capacity = 2
    /\ lastOp.op = "put"
    /\ lastOp.removed # {}
    /\ MapSize(keyToNode) = 2
    /\ ~pristine
    /\ \A k \in Cached : Valid(priorityQ, keyToNode[k])

\* C19: after every get and put on a cache of positive capacity the list,
\* read from head to tail, holds the cached keys in the order of their most
\* recent touch, the least recently touched at the head.
C19_ListIsTouchOrder ==
    capacity >= 1 =>
        KeysOf(priorityQ) = SelectSeq(touched, LAMBDA k : k \in Cached)

\* A get moved the head of a full list of two to the tail.
C19_Witness ==
    /\ capacity = 2
    /\ Len(priorityQ) = 2
    /\ lastOp.op = "get"
    /\ lastOp.wasCached
    /\ MostRecentlyUsed(priorityQ) = lastOp.key
    /\ Len(touched) = 3

(***************************************************************************)
(* CyclicQueue<T> of cppExamples/cyclic_queue.cpp: a std::list<T> with a   *)
(* count of its elements and a fixed capacity.                             *)
(***************************************************************************)
MaxQCap == 2
MaxElem == 2
MaxEnqueues == 4

\* explicit CyclicQueue(size_t capacity).
QCapacities == 0..MaxQCap
Elems == 1..MaxElem

\* Lines 58-61.
Count == numElements

\* Lines 63-66.
IsFull == cqCapacity = numElements

\* Lines 68-71.
IsEmpty == 0 = numElements

CQCall(op, threw, ret) == [op |-> op, threw |-> threw, ret |-> ret]

\* A call that throws std::runtime_error changes nothing.
CQThrow(op) ==
    /\ cqLast' = CQCall(op, TRUE, 0)
    /\ UNCHANGED <<cqCapacity, numElements, elements, cqUndefined,
                   cqEnqueued, cqDequeued>>

\* A call that reaches front() or pop_front() of an empty list.
CQUndefined(op) ==
    /\ cqUndefined' = TRUE
    /\ cqLast' = CQCall(op, FALSE, 0)
    /\ UNCHANGED <<cqCapacity, numElements, elements, cqEnqueued, cqDequeued>>

CQInit ==
    /\ cqCapacity \in QCapacities
    /\ numElements = 0
    /\ elements = <<>>
    /\ cqUndefined = FALSE
    /\ cqLast = CQCall("new", FALSE, 0)
    /\ cqEnqueued = <<>>
    /\ cqDequeued = 0

\* Enqueue without the IsFull test of lines 22-25.
EnqueueStores_Unchecked(val) ==
    /\ elements' = Append(elements, val)
    /\ numElements' = numElements + 1
    /\ cqLast' = CQCall("Enqueue", FALSE, 0)
    /\ cqEnqueued' = Append(cqEnqueued, val)
    /\ UNCHANGED <<cqCapacity, cqUndefined, cqDequeued>>

\* Enqueue with emplace_front at line 26.
EnqueueStores_AtFront(val) ==
    IF IsFull THEN CQThrow("Enqueue")
    ELSE /\ elements' = <<val>> \o elements
         /\ numElements' = numElements + 1
         /\ cqLast' = CQCall("Enqueue", FALSE, 0)
         /\ cqEnqueued' = Append(cqEnqueued, val)
         /\ UNCHANGED <<cqCapacity, cqUndefined, cqDequeued>>

\* Lines 20-28.
EnqueueStores(val) ==
    IF IsFull THEN CQThrow("Enqueue")
    ELSE /\ elements' = Append(elements, val)
         /\ numElements' = numElements + 1
         /\ cqLast' = CQCall("Enqueue", FALSE, 0)
         /\ cqEnqueued' = Append(cqEnqueued, val)
         /\ UNCHANGED <<cqCapacity, cqUndefined, cqDequeued>>

\* The number of enqueues that store is bounded; one that throws is not.
Enqueue(val) ==
    /\ ~cqUndefined
    /\ (Len(cqEnqueued) < MaxEnqueues \/ IsFull)
    /\ EnqueueStores(val)
    /\ UNCHANGED cqRest

\* Lines 30-37.
GetOldest ==
    /\ ~cqUndefined
    /\ IF IsEmpty THEN CQThrow("GetOldest")
       ELSE IF elements = <<>> THEN CQUndefined("GetOldest")
       ELSE /\ cqLast' = CQCall("GetOldest", FALSE, Head(elements))
            /\ UNCHANGED <<cqCapacity, numElements, elements, cqUndefined,
                           cqEnqueued, cqDequeued>>
    /\ UNCHANGED cqRest

\* Lines 48-56.
Dequeue ==
    /\ ~cqUndefined
    /\ IF IsEmpty THEN CQThrow("Dequeue")
       ELSE IF elements = <<>> THEN CQUndefined("Dequeue")
       ELSE /\ elements' = Tail(elements)
            /\ numElements' = numElements - 1
            /\ cqLast' = CQCall("Dequeue", FALSE, 0)
            /\ cqDequeued' = cqDequeued + 1
            /\ UNCHANGED <<cqCapacity, cqUndefined, cqEnqueued>>
    /\ UNCHANGED cqRest

CQNext ==
    \/ \E val \in Elems : Enqueue(val)
    \/ GetOldest
    \/ Dequeue

\* The elements enqueued and not yet dequeued, the earliest first.
CQPending == SubSeq(cqEnqueued, cqDequeued + 1, Len(cqEnqueued))

\* C12: the queue is first-in first-out: after any interleaving of Enqueue
\* and Dequeue, fill-and-drain rounds included, the stored elements are the
\* ones enqueued and not yet dequeued, GetOldest returns the earliest of
\* them and Dequeue removes exactly that one.
C12_FirstInFirstOut ==
    /\ ~cqUndefined
    /\ elements = CQPending
    /\ (cqLast.op = "GetOldest" /\ ~cqLast.threw) =>
          (CQPending # <<>> /\ cqLast.ret = Head(CQPending))

\* GetOldest returned an element of the second round: the queue of capacity
\* 2 had been filled and drained before.
C12_Witness ==
    /\ cqCapacity = 2
    /\ cqDequeued >= 2
    /\ Len(cqEnqueued) = 4
    /\ cqLast.op = "GetOldest"
    /\ ~cqLast.threw
    /\ cqLast.ret = cqEnqueued[cqDequeued + 1]
    /\ cqEnqueued[3] # cqEnqueued[4]

\* What holds of the count in every state.
C13_CountInvariant ==
    /\ ~cqUndefined
    /\ Count = Len(elements)
    /\ 0 <= Count /\ Count <= cqCapacity
    /\ IsEmpty <=> Count = 0
    /\ IsEmpty <=> elements = <<>>
    /\ IsFull <=> Count = cqCapacity
    /\ IsFull <=> Len(elements) = cqCapacity

\* Whether a step throws, and what a throwing step leaves alone.
C13_ThrowStep ==
    /\ cqLast'.threw <=>
          \/ cqLast'.op = "Enqueue" /\ Len(elements) = cqCapacity
          \/ cqLast'.op \in {"Dequeue", "GetOldest"} /\ elements = <<>>
    /\ cqLast'.threw => (elements' = elements /\ Count' = Count)

\* C13: Enqueue on a full queue and Dequeue or GetOldest on an empty queue
\* throw and leave the elements and Count() unchanged; in every state
\* Count() is the number of stored elements, 0 <= Count() <= capacity,
\* IsEmpty() holds exactly when Count() is 0 and IsFull() exactly when
\* Count() is the capacity.
C13_ErrorsLeaveQueueIntact ==
    []C13_CountInvariant /\ [][C13_ThrowStep]_cqVars

\* An Enqueue threw on a full queue of two elements.
C13_Witness ==
    /\ cqCapacity = 2
    /\ cqLast.op = "Enqueue"
    /\ cqLast.threw
    /\ Len(elements) = 2


(***************************************************************************)
(* SharedPtr<T> of cppExamples/my_shared_ptr.cpp.  Every call of the       *)
(* raw-pointer constructor makes a counter cell; cell n belongs to the     *)
(* n-th call, and so does object n when the pointer given was not null.    *)
(***************************************************************************)
MaxPtrs == 3
MaxObjs == 2

NullPtr == 0
Freed == 0 - 1

Ptrs == 1..MaxPtrs

Owner(raw, ctr) == [live |-> TRUE, rawPointer |-> raw, counter |-> ctr]

\* A variable outside its lifetime.
NoOwner == [live |-> FALSE, rawPointer |-> NullPtr, counter |-> NullPtr]

\* Lines 93-96.
use_count(cells, o) ==
    IF o.counter = NullPtr THEN 0 ELSE cells[o.counter]

\* What dereferencing the counter ctr does.
CounterFault(cells, ctr) ==
    IF ctr = NullPtr THEN "null"
    ELSE IF cells[ctr] = Freed THEN "freed"
    ELSE "none"

\* delete p: nothing for a null pointer; a second delete of an object is
\* counted, so that it shows.
Delete(objs, raw) ==
    IF raw = NullPtr THEN objs
    ELSE [objs EXCEPT ![raw].deletes = IF @ < 2 THEN @ + 1 ELSE @]

\* Release that frees the counter and leaves the object.
Release_KeepsObject(cells, objs, o) ==
    LET count == cells[o.counter] - 1
    IN  IF count = 0
        THEN [cells |-> [cells EXCEPT ![o.counter] = Freed], objs |-> objs]
        ELSE [cells |-> [cells EXCEPT ![o.counter] = count], objs |-> objs]

\* Lines 34-39, 52-57 and 81-88: --(*counter), and at 0 both deletes.
Release(cells, objs, o) ==
    LET count == cells[o.counter] - 1
    IN  IF count = 0
        THEN [cells |-> [cells EXCEPT ![o.counter] = Freed],
              objs |-> Delete(objs, o.rawPointer)]
        ELSE [cells |-> [cells EXCEPT ![o.counter] = count], objs |-> objs]

\* The release of lines 34-39 and 52-57; a --(*counter) on a null or freed
\* counter that does not end the process passes without effect.
ReleaseOrPass(cells, objs, o) ==
    IF CounterFault(cells, o.counter) = "none" THEN Release(cells, objs, o)
    ELSE [cells |-> cells, objs |-> objs]

\* Lines 27 and 61: ++(*counter), passing without effect in the same way.
Increment(cells, ctr) ==
    IF CounterFault(cells, ctr) = "none"
    THEN [cells EXCEPT ![ctr] = @ + 1]
    ELSE cells

FirstFault(f1, f2) == IF f1 # "none" THEN f1 ELSE f2

\* Owner j, holding o, is moved from.
GaveAway(moved, j, o) ==
    IF o.counter # NullPtr THEN moved \cup {j} ELSE moved

\* A call, what it dereferenced, and whether it was the destruction of a
\* moved-from owner, a copy construction from one or an assignment to one.
SPCall(op, fault, onMoved) ==
    [op |-> op, fault |-> fault, onMoved |-> onMoved]

SPInit ==
    /\ spOwner = [i \in Ptrs |-> NoOwner]
    /\ spCell = <<>>
    /\ spObject = <<>>
    /\ spFault = "none"
    /\ spCrashed = FALSE
    /\ spLast = SPCall("none", "none", FALSE)
    /\ spMoved = {}
    /\ spOutside = FALSE

\* How a call ends: with every statement defined it returns; one that
\* dereferenced a null or freed counter either ends the process there or
\* returns with that statement passed without effect.
Complete(call, owners, cells, objs, moved) ==
    /\ spLast' = call
    /\ spFault' = FirstFault(spFault, call.fault)
    /\ \E dies \in BOOLEAN :
        /\ dies => call.fault # "none"
        /\ IF dies
           THEN /\ spCrashed' = TRUE
                /\ UNCHANGED <<spOwner, spCell, spObject, spMoved>>
           ELSE /\ spOwner' = owners
                /\ spCell' = cells
                /\ spObject' = objs
                /\ spMoved' = moved
                /\ UNCHANGED spCrashed

\* Lines 9-13, for a new T (holds) or for nullptr.
RawCtor(i, holds) ==
    LET n == Len(spCell) + 1
    IN  /\ ~spCrashed
        /\ ~spOwner[i].live
        /\ Len(spCell) < MaxObjs
        /\ Complete(SPCall("RawCtor", "none", FALSE),
                    [spOwner EXCEPT
                        ![i] = Owner(IF holds THEN n ELSE NullPtr, n)],
                    Append(spCell, 1),
                    Append(spObject, [isObject |-> holds, deletes |-> 0]),
                    spMoved)
        /\ UNCHANGED <<spOutside, spRest>>

\* Lines 15-21.
MoveCtor(i, j) ==
    LET other == spOwner[j]
    IN  /\ ~spCrashed
        /\ ~spOwner[i].live
        /\ other.live
        /\ Complete(SPCall("MoveCtor", "none", FALSE),
                    [spOwner EXCEPT ![i] = other,
                                    ![j] = Owner(NullPtr, NullPtr)],
                    spCell, spObject, GaveAway(spMoved, j, other))
        /\ spOutside' = (spOutside \/ other.rawPointer = NullPtr)
        /\ UNCHANGED spRest

\* Lines 23-28.
CopyCtor(i, j) ==
    LET other == spOwner[j]
    IN  /\ ~spCrashed
        /\ ~spOwner[i].live
        /\ other.live
        /\ Complete(SPCall("CopyCtor", CounterFault(spCell, other.counter),
                           j \in spMoved),
                    [spOwner EXCEPT ![i] = other],
                    Increment(spCell, other.counter), spObject, spMoved)
        /\ spOutside' = (spOutside \/ other.rawPointer = NullPtr)
        /\ UNCHANGED spRest

\* Lines 30-46.
MoveAssign(i, j) ==
    LET this == spOwner[i]
        other == spOwner[j]
        r == ReleaseOrPass(spCell, spObject, this)
    IN  /\ ~spCrashed
        /\ this.live
        /\ other.live
        /\ IF i = j
           THEN Complete(SPCall("MoveAssign", "none", i \in spMoved),
                         spOwner, spCell, spObject, spMoved)
           ELSE Complete(SPCall("MoveAssign", CounterFault(spCell, this.counter),
                                i \in spMoved),
                         [spOwner EXCEPT ![i] = other,
                                         ![j] = Owner(NullPtr, NullPtr)],
                         r.cells, r.objs,
                         GaveAway(spMoved \ {i}, j, other))
        /\ spOutside' = (spOutside \/ this.rawPointer = NullPtr
                                   \/ other.rawPointer = NullPtr)
        /\ UNCHANGED spRest

\* Lines 48-65.
CopyAssign(i, j) ==
    LET this == spOwner[i]
        other == spOwner[j]
        r == ReleaseOrPass(spCell, spObject, this)
    IN  /\ ~spCrashed
        /\ this.live
        /\ other.live
        /\ IF i = j
           THEN Complete(SPCall("CopyAssign", "none", i \in spMoved),
                         spOwner, spCell, spObject, spMoved)
           ELSE Complete(SPCall("CopyAssign",
                                FirstFault(CounterFault(spCell, this.counter),
                                           CounterFault(r.cells, other.counter)),
                                i \in spMoved),
                         [spOwner EXCEPT ![i] = other],
                         Increment(r.cells, other.counter), r.objs,
                         spMoved \ {i})
        /\ spOutside' = (spOutside \/ this.rawPointer = NullPtr
                                   \/ other.rawPointer = NullPtr)
        /\ UNCHANGED spRest

\* Lines 77-90; the variable's lifetime ends.
Destroy(i) ==
    LET this == spOwner[i]
        skip == this.counter = NullPtr
        r == IF skip THEN [cells |-> spCell, objs |-> spObject]
             ELSE ReleaseOrPass(spCell, spObject, this)
    IN  /\ ~spCrashed
        /\ this.live
        /\ Complete(SPCall("Destroy",
                           IF skip THEN "none"
                           ELSE CounterFault(spCell, this.counter),
                           i \in spMoved),
                    [spOwner EXCEPT ![i] = NoOwner],
                    r.cells, r.objs, spMoved \ {i})
        /\ UNCHANGED <<spOutside, spRest>>

SPNext ==
    \/ \E i \in Ptrs, holds \in BOOLEAN : RawCtor(i, holds)
    \/ \E i, j \in Ptrs : MoveCtor(i, j)
    \/ \E i, j \in Ptrs : CopyCtor(i, j)
    \/ \E i, j \in Ptrs : MoveAssign(i, j)
    \/ \E i, j \in Ptrs : CopyAssign(i, j)
    \/ \E i \in Ptrs : Destroy(i)

\* The owners in their lifetime that hold object n.
OwnersOf(n) == {i \in Ptrs : spOwner[i].live /\ spOwner[i].rawPointer = n}

\* C14: as long as construction from a raw pointer, copy and move
\* construction, copy and move assignment were applied to owners that hold
\* an object (and owners were destroyed), no call is undefined, use_count()
\* of every owner that holds an object is the number of owners currently
\* holding that object, and every object has been deleted exactly once if
\* no owner holds it any more and not at all while one does.
C14_CountIsOwners ==
    ~spOutside =>
        /\ spFault = "none"
        /\ ~spCrashed
        /\ \A i \in Ptrs :
              (spOwner[i].live /\ spOwner[i].rawPointer # NullPtr) =>
                 use_count(spCell, spOwner[i])
                    = Cardinality(OwnersOf(spOwner[i].rawPointer))
        /\ \A n \in 1..Len(spObject) :
              spObject[n].isObject =>
                 spObject[n].deletes = IF OwnersOf(n) = {} THEN 1 ELSE 0

\* A copy assignment dropped the last owner of object 2, which was deleted,
\* and made a second owner of object 1.
C14_Witness ==
    /\ ~spOutside
    /\ spLast.op = "CopyAssign"
    /\ Len(spObject) = 2
    /\ spObject[2].isObject /\ spObject[2].deletes = 1
    /\ Cardinality(OwnersOf(1)) = 2
    /\ \A i \in OwnersOf(1) : use_count(spCell, spOwner[i]) = 2

\* C20: a moved-from owner has use_count() 0, and destroying it, copy
\* constructing from it and copy or move assigning to it dereference no
\* null counter.
C20_MovedFromIsSafe ==
    /\ \A i \in spMoved : use_count(spCell, spOwner[i]) = 0
    /\ spLast.onMoved => spLast.fault # "null"

(***************************************************************************)
(* MedianFinder of cppExamples/median_stream.cpp.  A priority_queue is a   *)
(* sequence kept in the order of its comparison: top() is its head.  A     *)
(* double is the pair of an int numerator and a denominator 1 or 2, which  *)
(* is exact for every value findMedian computes.                           *)
(***************************************************************************)
MaxNum == 1
MaxStream == 4

IntMax == 2147483647
IntMin == 0 - IntMax - 1

\* The numbers added: the small ones and the two ends of int.
Nums == ((0 - MaxNum)..MaxNum) \cup {IntMin, IntMax}

Double(num, den) == [num |-> num, den |-> den]

\* No value: addNum returns void.
NoMedian == Double(0, 0)

\* push on a priority_queue<int>.
RECURSIVE PushMax(_, _)
PushMax(h, x) ==
    IF h = <<>> THEN <<x>>
    ELSE IF x >= Head(h) THEN <<x>> \o h
    ELSE <<Head(h)>> \o PushMax(Tail(h), x)

\* push on a priority_queue<int, vector<int>, greater<int>>.
RECURSIVE PushMin(_, _)
PushMin(h, x) ==
    IF h = <<>> THEN <<x>>
    ELSE IF x <= Head(h) THEN <<x>> \o h
    ELSE <<Head(h)>> \o PushMin(Tail(h), x)

\* Lines 18-25.
Placed(hmax, hmin, num) ==
    IF hmax # <<>> /\ Head(hmax) >= num
    THEN [hmax |-> PushMax(hmax, num), hmin |-> hmin]
    ELSE [hmax |-> hmax, hmin |-> PushMin(hmin, num)]

\* Lines 27-44.
Balanced(hmax, hmin) ==
    IF Len(hmax) > Len(hmin)
    THEN IF Len(hmax) - Len(hmin) > 1
         THEN [hmax |-> Tail(hmax), hmin |-> PushMin(hmin, Head(hmax))]
         ELSE [hmax |-> hmax, hmin |-> hmin]
    ELSE IF Len(hmax) < Len(hmin) /\ Len(hmin) - Len(hmax) > 1
         THEN [hmax |-> PushMax(hmax, Head(hmin)), hmin |-> Tail(hmin)]
         ELSE [hmax |-> hmax, hmin |-> hmin]

\* int + int leaves the range of int: undefined behaviour.
Overflows(a, b) ==
    IF a > 0 /\ b > 0 THEN a > IntMax - b
    ELSE IF a < 0 /\ b < 0 THEN a < IntMin - b
    ELSE FALSE

\* The sum modulo 2^32 as an int, which the overflowing addition yields when
\* it yields a value.
Wrapped(a, b) ==
    IF ~Overflows(a, b) THEN a + b
    ELSE IF a > 0 THEN (a - IntMax - 1) + (b - IntMax - 1)
    ELSE (a + IntMax + 1) + (b + IntMax + 1)

MFInit ==
    /\ heapMax = <<>>
    /\ heapMin = <<>>
    /\ mfCrashed = FALSE
    /\ mfMedian = NoMedian
    /\ mfStream = <<>>

\* Lines 16-45.
addNum(num) ==
    LET p == Placed(heapMax, heapMin, num)
        b == Balanced(p.hmax, p.hmin)
    IN  /\ ~mfCrashed
        /\ Len(mfStream) < MaxStream
        /\ heapMax' = b.hmax
        /\ heapMin' = b.hmin
        /\ mfMedian' = NoMedian
        /\ mfStream' = Append(mfStream, num)
        /\ UNCHANGED <<mfCrashed, mfRest>>

\* Lines 47-56: the heaps differ in size.
findMedianOdd ==
    /\ ~mfCrashed
    /\ Len(heapMax) # Len(heapMin)
    /\ mfMedian' = IF Len(heapMax) > Len(heapMin)
                   THEN Double(Head(heapMax), 1)
                   ELSE Double(Head(heapMin), 1)
    /\ UNCHANGED <<heapMax, heapMin, mfCrashed, mfStream, mfRest>>

\* Line 58 with a sum inside int.
findMedianEven ==
    /\ ~mfCrashed
    /\ Len(heapMax) = Len(heapMin)
    /\ heapMax # <<>>
    /\ ~Overflows(Head(heapMax), Head(heapMin))
    /\ mfMedian' = Double(Head(heapMax) + Head(heapMin), 2)
    /\ UNCHANGED <<heapMax, heapMin, mfCrashed, mfStream, mfRest>>

\* Line 58 with a sum outside int: the addition traps, or yields the
\* wrapped sum.
findMedianOverflow ==
    /\ ~mfCrashed
    /\ Len(heapMax) = Len(heapMin)
    /\ heapMax # <<>>
    /\ Overflows(Head(heapMax), Head(heapMin))
    /\ \E traps \in BOOLEAN :
        IF traps
        THEN mfCrashed' = TRUE /\ mfMedian' = NoMedian
        ELSE /\ mfMedian' = Double(Wrapped(Head(heapMax), Head(heapMin)), 2)
             /\ UNCHANGED mfCrashed
    /\ UNCHANGED <<heapMax, heapMin, mfStream, mfRest>>

\* Line 58 before any addNum: top() of two empty heaps.  The process ends
\* there, or some value comes back.
findMedianEmpty ==
    /\ ~mfCrashed
    /\ heapMax = <<>> /\ heapMin = <<>>
    /\ \E dies \in BOOLEAN, num \in Nums :
        IF dies
        THEN mfCrashed' = TRUE /\ mfMedian' = NoMedian
        ELSE mfMedian' = Double(num, 2) /\ UNCHANGED mfCrashed
    /\ UNCHANGED <<heapMax, heapMin, mfStream, mfRest>>

MFNext ==
    \/ \E num \in Nums : addNum(num)
    \/ findMedianOdd
    \/ findMedianEven
    \/ findMedianOverflow
    \/ findMedianEmpty

\* The stream in increasing order.
RECURSIVE SortedStream(_)
SortedStream(s) ==
    IF s = <<>> THEN <<>>
    ELSE PushMin(SortedStream(Tail(s)), Head(s))

\* d is the median of the sorted non-empty s: its middle element, or the
\* mean of its two middle elements.  A mean whose numerator is outside int
\* is no Double(num, 2) with num an int.
IsMedianOf(d, s) ==
    LET n == Len(s)
    IN  IF n % 2 = 1 THEN d = Double(s[(n + 1) \div 2], 1)
        ELSE /\ ~Overflows(s[n \div 2], s[n \div 2 + 1])
             /\ d = Double(s[n \div 2] + s[n \div 2 + 1], 2)

FindMedianReturned == mfMedian # NoMedian \/ mfCrashed

\* C15: after any non-empty sequence of addNum calls findMedian returns the
\* median of the numbers added so far, whatever int values they are.
C15_MedianOfStream ==
    (mfStream # <<>> /\ FindMedianReturned) =>
        /\ ~mfCrashed
        /\ IsMedianOf(mfMedian, SortedStream(mfStream))

(***************************************************************************)
(* Logger::getInstance of cppExamples/singleton.cpp, called once by each   *)
(* thread of main.  The declaration of the function-local static follows   *)
(* C++11: the first thread to reach it runs the constructor, a thread that *)
(* reaches it meanwhile waits until the initialisation is complete.        *)
(***************************************************************************)
MaxThreads == 3

Threads == 1..MaxThreads

NoInstance == 0

\* Nothing returned yet.
NotYet == [instance |-> NoInstance, complete |-> FALSE]

SGInit ==
    /\ sgGuard = "uninitialized"
    /\ sgCtorRuns = 0
    /\ sgInstance = NoInstance
    /\ sgPc = [t \in Threads |-> "start"]
    /\ sgGot = [t \in Threads |-> NotYet]
    /\ sgWaited = {}

\* Line 40: the thread calls getInstance and comes to line 20.
Call(t) ==
    /\ sgPc[t] = "start"
    /\ sgPc' = [sgPc EXCEPT ![t] = "declaration"]
    /\ UNCHANGED <<sgGuard, sgCtorRuns, sgInstance, sgGot, sgWaited, sgRest>>

\* A declaration that takes a running initialisation for none.
Declaration_Unguarded(t) ==
    /\ sgPc[t] = "declaration"
    /\ IF sgGuard = "done"
       THEN /\ sgPc' = [sgPc EXCEPT ![t] = "return"]
            /\ UNCHANGED sgGuard
       ELSE /\ sgGuard' = "running"
            /\ sgPc' = [sgPc EXCEPT ![t] = "constructor"]
    /\ UNCHANGED <<sgCtorRuns, sgInstance, sgGot, sgWaited, sgRest>>

\* Line 20, static Logger instance: initialised already, to be initialised
\* by this thread, or being initialised by another.
Declaration(t) ==
    /\ sgPc[t] = "declaration"
    /\ IF sgGuard = "done"
       THEN /\ sgPc' = [sgPc EXCEPT ![t] = "return"]
            /\ UNCHANGED <<sgGuard, sgWaited>>
       ELSE IF sgGuard = "uninitialized"
       THEN /\ sgGuard' = "running"
            /\ sgPc' = [sgPc EXCEPT ![t] = "constructor"]
            /\ UNCHANGED sgWaited
       ELSE /\ sgPc' = [sgPc EXCEPT ![t] = "waiting"]
            /\ sgWaited' = sgWaited \cup {t}
            /\ UNCHANGED sgGuard
    /\ UNCHANGED <<sgCtorRuns, sgInstance, sgGot, sgRest>>

\* Lines 33-35: the body of Logger() runs in the static's storage.
Constructor(t) ==
    /\ sgPc[t] = "constructor"
    /\ sgCtorRuns' = sgCtorRuns + 1
    /\ sgInstance' = sgCtorRuns + 1
    /\ sgPc' = [sgPc EXCEPT ![t] = "constructed"]
    /\ UNCHANGED <<sgGuard, sgGot, sgWaited, sgRest>>

\* Line 20: the initialisation is complete.
Initialized(t) ==
    /\ sgPc[t] = "constructed"
    /\ sgGuard' = "done"
    /\ sgPc' = [sgPc EXCEPT ![t] = "return"]
    /\ UNCHANGED <<sgCtorRuns, sgInstance, sgGot, sgWaited, sgRest>>

\* Line 20: a waiting thread goes on once the initialisation is complete.
Resume(t) ==
    /\ sgPc[t] = "waiting"
    /\ sgGuard = "done"
    /\ sgPc' = [sgPc EXCEPT ![t] = "return"]
    /\ UNCHANGED <<sgGuard, sgCtorRuns, sgInstance, sgGot, sgWaited, sgRest>>

\* Line 21: return instance; the thread uses it (line 40) and ends.
Return(t) ==
    /\ sgPc[t] = "return"
    /\ sgGot' = [sgGot EXCEPT ![t] = [instance |-> sgInstance,
                                      complete |-> sgGuard = "done"]]
    /\ sgPc' = [sgPc EXCEPT ![t] = "joined"]
    /\ UNCHANGED <<sgGuard, sgCtorRuns, sgInstance, sgWaited, sgRest>>

SGNext ==
    \/ \E t \in Threads : Call(t)
    \/ \E t \in Threads : Declaration(t)
    \/ \E t \in Threads : Constructor(t)
    \/ \E t \in Threads : Initialized(t)
    \/ \E t \in Threads : Resume(t)
    \/ \E t \in Threads : Return(t)

\* The threads getInstance has returned to.
Returned == {t \in Threads : sgPc[t] = "joined"}

\* C16: under every interleaving of the threads' getInstance calls the
\* constructor runs once (never twice, and once before any call returns),
\* a call returns only an instance whose construction is complete, and all
\* calls return the same instance.
C16_OneInstance ==
    /\ sgCtorRuns <= 1
    /\ \A t \in Returned :
          /\ sgCtorRuns = 1
          /\ sgGot[t].complete
          /\ sgGot[t].instance # NoInstance
    /\ \A t, u \in Returned : sgGot[t].instance = sgGot[u].instance

\* Every thread has its instance, and two of them had to wait for it.
C16_Witness ==
    /\ Returned = Threads
    /\ Cardinality(sgWaited) >= 2
    /\ sgCtorRuns = 1

(***************************************************************************)
(* The specifications: each takes the steps of one class and leaves the    *)
(* objects of the others as constructed.                                   *)
(***************************************************************************)
LRUIdle ==
    /\ capacity = 1
    /\ priorityQ = <<>>
    /\ keyToNode = <<>>
    /\ crashed = FALSE
    /\ lastOp = [op |-> "new", key |-> 0, val |-> 0, ret |-> 0,
                 wasCached |-> FALSE, removed |-> {}]
    /\ touched = <<>>
    /\ lastPut = [k \in Keys |-> <<>>]
    /\ pristine = TRUE
    /\ firstPuts = <<>>
    /\ tracked = {}
    /\ peers = [k \in Keys |-> {}]

CQIdle ==
    /\ cqCapacity = 0
    /\ numElements = 0
    /\ elements = <<>>
    /\ cqUndefined = FALSE
    /\ cqLast = CQCall("new", FALSE, 0)
    /\ cqEnqueued = <<>>
    /\ cqDequeued = 0

\* LRUCache.
LRUStart == Init /\ CQIdle /\ SPInit /\ MFInit /\ SGInit

Spec == LRUStart /\ [][Next]_allVars

\* CyclicQueue.
CQStart == CQInit /\ LRUIdle /\ SPInit /\ MFInit /\ SGInit

SpecCQ == CQStart /\ [][CQNext]_allVars

\* SharedPtr.
SPStart == SPInit /\ LRUIdle /\ CQIdle /\ MFInit /\ SGInit

SpecSP == SPStart /\ [][SPNext]_allVars

\* MedianFinder.
MFStart == MFInit /\ LRUIdle /\ CQIdle /\ SPInit /\ SGInit

SpecMF == MFStart /\ [][MFNext]_allVars

\* Logger.
SGStart == SGInit /\ LRUIdle /\ CQIdle /\ SPInit /\ MFInit

SpecSG == SGStart /\ [][SGNext]_allVars
====
